---- MODULE Spec2Model ----
(***************************************************************************)
(* A model of database/init_db.py: the one-shot SQLite initializer of the  *)
(* simple to-do list.  A run of main() resolves the database path from     *)
(* db_connection.txt, opens the database, reconciles the schema and the    *)
(* metadata rows, closes the handle, rewrites db_connection.txt and        *)
(* db_visualizer/sqlite.env, and prints a report.                          *)
(*                                                                         *)
(* Text is a sequence of tokens.  A token is one character, except that    *)
(* each fixed phrase of the file formats ("File path:", "myapp.db", the    *)
(* fixed parts of the written lines) is one token.                         *)
(***************************************************************************)
EXTENDS Integers, Sequences, FiniteSets, TLC

\* ------------------------------------------------------------------ bounds

\* Longest descriptor content enumerated token by token in Init.
MaxLen == 4
\* Runs of main() in one behaviour.
MaxRuns == 3
\* Environment failures (OS or storage-engine errors) in one behaviour.
MaxFails == 1

\* ------------------------------------------------------------------ text

NL == "\n"
SP == " "
HASH == "#"
SLASH == "/"
MARKER == "File path:"

\* What Python's \s and str.strip() treat as whitespace, among the tokens.
Whitespace == {SP, NL}

\* Tokens of the descriptor contents enumerated in Init.
Alphabet == {HASH, MARKER, SP, NL, "a"}

None == [none |-> TRUE]

Min(S) == CHOOSE x \in S : \A y \in S : x <= y

Max(S) == CHOOSE x \in S : \A y \in S : y <= x

\* All sequences over S of length at most n.
SeqsUpTo(S, n) == UNION {[1..k -> S] : k \in 0..n}

\* "^" under re.MULTILINE: the start of the text or just after a newline.
AtLineStart(text, i) == i = 1 \/ text[i - 1] = NL

\* Where a greedy \s* that starts at i stops: the first position at or after
\* i that holds no whitespace (Len(text) + 1 when the whitespace runs to the end).
SkipWs(text, i) ==
  Min({j \in i..(Len(text) + 1) : j = Len(text) + 1 \/ text[j] \notin Whitespace})

\* Where a greedy .+ that starts at s stops: "." does not match a newline.
EndOfLine(text, s) ==
  Max({e \in s..Len(text) : \A j \in s..e : text[j] # NL})

\* The match of  #\s*File path:\s*(.+)\s*$  attempted at position i, as the
\* (start, end) of group 1, or None.  The first \s* must stop at the marker.
\* The second \s* is greedy and backs off one character at a time until .+
\* finds a character that is no newline; .+ then runs to the end of that
\* line, where \s*$ matches with the empty string.
MatchAt(text, i) ==
  IF ~(i <= Len(text) /\ AtLineStart(text, i) /\ text[i] = HASH) THEN None
  ELSE LET k == SkipWs(text, i + 1) IN
    IF ~(k <= Len(text) /\ text[k] = MARKER) THEN None
    ELSE LET m == SkipWs(text, k + 1)
             starts == {s \in (k + 1)..m : s <= Len(text) /\ text[s] # NL}
         IN IF starts = {} THEN None
            ELSE [none |-> FALSE, from |-> Max(starts),
                  to |-> EndOfLine(text, Max(starts))]

\* re.search: the match at the leftmost position where one exists.
Search(text) ==
  LET hits == {i \in 1..Len(text) : MatchAt(text, i) # None}
  IN IF hits = {} THEN None ELSE MatchAt(text, Min(hits))

\* str.strip(): without leading and trailing whitespace.
Strip(s) ==
  LET keep == {i \in 1..Len(s) : s[i] \notin Whitespace}
  IN IF keep = {} THEN <<>> ELSE SubSeq(s, Min(keep), Max(keep))

\* pathlib.Path(str): repeated slashes collapse and a trailing slash is
\* dropped (the root stays).  A leading "//" and "." components are not
\* produced by any input of this model.
DropTrailingSlash(s) ==
  IF Len(s) > 1 /\ s[Len(s)] = SLASH THEN SubSeq(s, 1, Len(s) - 1) ELSE s

RECURSIVE CollapseSlashes(_)
CollapseSlashes(s) ==
  IF Len(s) <= 1 THEN s
  ELSE IF s[1] = SLASH /\ s[2] = SLASH THEN CollapseSlashes(Tail(s))
  ELSE <<s[1]>> \o CollapseSlashes(Tail(s))

Path(s) == DropTrailingSlash(CollapseSlashes(s))

\* _parse_db_path_from_connection_file on a file whose content was read.
ParsePathFromText(content) ==
  LET match == Search(content) IN
  IF match = None THEN None
  ELSE LET path_str == Strip(SubSeq(content, match.from, match.to)) IN
       IF path_str = <<>> THEN None
       ELSE [none |-> FALSE, path |-> Path(path_str)]

\* ------------------------------------------------------------------ paths

\* os.getcwd(): the working directory of every run.
Cwd == <<SLASH, "c">>

Root == <<SLASH>>

\* Path(os.getcwd()) / "myapp.db"
DefaultPath == Cwd \o <<SLASH, "myapp.db">>

\* A database outside the working directory, as a descriptor may record it.
CustomPath == <<SLASH, "d", SLASH, "a">>

\* A database a descriptor names relative to the working directory.
LocalPath == Cwd \o <<SLASH, "a">>

\* Path.resolve(): a relative path is taken from the working directory.
\* Symbolic links and ".." do not occur in this model.
Resolve(p) == IF p[1] = SLASH THEN p ELSE Cwd \o <<SLASH>> \o p

Slashes(p) == {i \in 1..Len(p) : p[i] = SLASH}

\* Path.name: the last component.
Name(p) == IF Slashes(p) = {} THEN p ELSE SubSeq(p, Max(Slashes(p)) + 1, Len(p))

\* The directories above an absolute path, the root included.
Ancestors(p) ==
  {Root} \cup {SubSeq(p, 1, i - 1) : i \in {j \in Slashes(p) : j > 1}}

\* ------------------------------------------------------------------ files

\* db_connection.txt (DB_CONNECTION_FILE) when os.path.exists is false.
Absent == [kind |-> "absent", text |-> <<>>]

Unreadable == [kind |-> "unreadable", text |-> <<>>]

Undecodable == [kind |-> "undecodable", text |-> <<>>]

TextFile(t) == [kind |-> "text", text |-> t]

Raised == [raised |-> TRUE]

\* _parse_db_path_from_connection_file: None for a missing file and for one
\* open() refuses (OSError); bytes that are no UTF-8 make f.read() raise
\* UnicodeDecodeError, a ValueError, which "except OSError" does not catch.
ParseDbPathFromConnectionFile(file) ==
  CASE file.kind = "absent" -> None
    [] file.kind = "unreadable" -> None
    [] file.kind = "undecodable" -> Raised
    [] file.kind = "text" -> ParsePathFromText(file.text)

\* The four lines _write_connection_file writes.
ConnectionFileText(db_path) ==
  <<HASH, SP, "SQLite connection methods:", NL>>
  \o <<HASH, SP, "Python: sqlite3.connect('">> \o Name(db_path) \o <<"')", NL>>
  \o <<HASH, SP, "Connection string: sqlite:///">> \o db_path \o <<NL>>
  \o <<HASH, SP, MARKER, SP>> \o db_path \o <<NL>>

\* The line _ensure_visualizer_env writes.
VisualizerEnvText(db_path) == <<"export SQLITE_DB=", "\"">> \o db_path \o <<"\"", NL>>

VisualizerDir == Cwd \o <<SLASH, "db_visualizer">>

\* What a failed "with open(path, "w") as f: f.write(...)" can leave: the
\* file as it was (open refused), or the file truncated and empty (the text
\* sits in f's buffer until the with block closes f, and the flush failed).
FailedWrites(old) == {old, TextFile(<<>>)}

\* ------------------------------------------------------------------ database

Tables == {"app_info", "todos"}

EmptyDb ==
  [tables |-> {}, index |-> FALSE, app_info |-> {}, todos |-> {}, seq |-> 0,
   wal |-> FALSE]

\* PRAGMA journal_mode = WAL (PRAGMA foreign_keys holds for the handle only).
SetPragmas(db) == [db EXCEPT !.wal = TRUE]

\* CREATE TABLE IF NOT EXISTS app_info
CreateAppInfo(db) ==
  IF "app_info" \in db.tables THEN db
  ELSE [db EXCEPT !.tables = @ \cup {"app_info"}, !.app_info = {}]

\* CreateTodos as DROP TABLE IF EXISTS todos followed by CREATE TABLE todos.
CreateTodosAfterDrop(db) == [db EXCEPT !.tables = @ \cup {"todos"}, !.todos = {}]

\* CREATE TABLE IF NOT EXISTS todos
CreateTodos(db) ==
  IF "todos" \in db.tables THEN db
  ELSE [db EXCEPT !.tables = @ \cup {"todos"}, !.todos = {}]

\* CREATE INDEX IF NOT EXISTS idx_todos_completed
CreateIndex(db) == [db EXCEPT !.index = TRUE]

\* InsertOrReplace as a plain insert into a table whose key is not unique.
InsertOnly(db, key, value, now) ==
  [db EXCEPT
     !.app_info = @
        \cup {[id |-> db.seq + 1, key |-> key, value |-> value, created_at |-> now]},
     !.seq = @ + 1]

\* INSERT OR REPLACE INTO app_info (key, value): key is UNIQUE, so the row
\* that holds the key is deleted and a new row is inserted; AUTOINCREMENT
\* gives it an id above every id the table ever held.
InsertOrReplace(db, key, value, now) ==
  [db EXCEPT
     !.app_info = {r \in @ : r.key # key}
        \cup {[id |-> db.seq + 1, key |-> key, value |-> value, created_at |-> now]},
     !.seq = @ + 1]

\* The statements of _ensure_schema that take effect when statement k + 1
\* fails: DDL is committed as it runs, the two inserts only by conn.commit().
SchemaStatements(db, k) ==
  LET s1 == IF k >= 1 THEN CreateAppInfo(db) ELSE db
      s2 == IF k >= 2 THEN CreateTodos(s1) ELSE s1
      s3 == IF k >= 3 THEN CreateIndex(s2) ELSE s2
  IN s3

\* EnsureSchema with a version value that counts the runs.
EnsureSchemaCountingRuns(db, now) ==
  InsertOrReplace(
    InsertOrReplace(SchemaStatements(db, 3), "project_name", "simple-to-do-list", now),
    "version", IF now = 1 THEN "0.1.0" ELSE "0.1.1", now)

\* _ensure_schema, committed.
EnsureSchema(db, now) ==
  InsertOrReplace(
    InsertOrReplace(SchemaStatements(db, 3), "project_name", "simple-to-do-list", now),
    "version", "0.1.0", now)

\* The three counts main() selects.
Statistics(db) ==
  [table_count |-> Cardinality(db.tables),
   app_info_count |-> Cardinality(db.app_info),
   todos_count |-> Cardinality(db.todos)]

\* CloseConnection without the finally clause: the handle stays as it is.
LeaveConnection(open) == open

\* conn.close() in the finally clause: the state of the handle afterwards.
CloseConnection(open) == FALSE

\* ------------------------------------------------------------------ state

VARIABLES
  pc,        \* where the run of main() is
  runs,      \* runs of main() started so far
  fails,     \* environment failures so far
  desc,      \* db_connection.txt
  envFile,   \* db_visualizer/sqlite.env
  dirs,      \* the directories that exist
  dbs,       \* the database files that exist, by absolute path
  db_path,   \* main's db_path, None before it is resolved
  db_exists, \* main's db_exists
  connOpen,  \* whether the handle conn is open
  opens,     \* sqlite3.connect calls of this run that returned a handle
  stats,     \* the counts main() selected, None before
  report,    \* what the run printed as its summary, None before
  visited,   \* the stages this run went through, in order
  start,     \* the files and databases as this run found them
  last       \* the summary of the run before this one, None in the first

vars ==
  <<pc, runs, fails, desc, envFile, dirs, dbs, db_path, db_exists, connOpen,
    opens, stats, report, visited, start, last>>

\* The stages of a run, in the order main() goes through them.
Stages ==
  <<"Start", "PathResolved", "ConnectionOpened", "SchemaEnsured",
    "ConnectionClosed", "ConfigWritten", "ReportEmitted", "Done">>

\* The database file this run works on.
Target == Resolve(db_path.path)

\* ------------------------------------------------------------------ initial states

TodoRows ==
  {[id |-> 1, title |-> "t1", completed |-> 0],
   [id |-> 2, title |-> "t2", completed |-> 1]}

\* app_info as an earlier run of this script left it.
CurrentInfo ==
  {[id |-> 1, key |-> "project_name", value |-> "simple-to-do-list", created_at |-> 0],
   [id |-> 2, key |-> "version", value |-> "0.1.0", created_at |-> 0]}

\* app_info with an older project name, no version, and a row of another key.
OlderInfo ==
  {[id |-> 1, key |-> "project_name", value |-> "template", created_at |-> 0],
   [id |-> 3, key |-> "theme", value |-> "dark", created_at |-> 0]}

InitialisedDb(todos, info) ==
  [tables |-> Tables, index |-> TRUE, app_info |-> info, todos |-> todos,
   seq |-> Max({r.id : r \in info}), wal |-> TRUE]

\* A database file before a run: empty, or holding the schema of this script.
InitDbStates ==
  {EmptyDb,
   InitialisedDb({}, CurrentInfo),
   InitialisedDb(TodoRows, CurrentInfo),
   InitialisedDb({CHOOSE r \in TodoRows : r.id = 1}, OlderInfo),
   InitialisedDb(TodoRows, OlderInfo)}

\* Descriptors as an earlier run of this script wrote them.
WrittenDescriptors == {ConnectionFileText(DefaultPath), ConnectionFileText(CustomPath)}

\* Descriptors edited by hand, longer than MaxLen: a marker line left blank
\* above the path line; two path lines; one that names the working
\* directory; one that names a path below the default database file.
EditedDescriptors ==
  {<<HASH, SP, MARKER, NL, HASH, SP, MARKER, SP>> \o CustomPath \o <<NL>>,
   <<HASH, SP, MARKER, SP>> \o CustomPath \o <<NL, HASH, SP, MARKER, SP>> \o DefaultPath \o <<NL>>,
   <<HASH, SP, MARKER, SP>> \o Cwd \o <<SLASH, NL>>,
   <<HASH, SP, MARKER, SP>> \o DefaultPath \o <<SLASH, "a", NL>>}

DirsFor(d, e) ==
  {Root, Cwd} \cup UNION {Ancestors(p) : p \in DOMAIN d}
  \cup (IF e = Absent THEN {} ELSE {VisualizerDir})

Snapshot == [desc |-> desc, envFile |-> envFile, dbs |-> dbs]

Init ==
  /\ pc = "Start"
  /\ runs = 1
  /\ fails = 0
  /\ \/ /\ desc \in {Absent, Unreadable, Undecodable}
              \cup {TextFile(t) : t \in WrittenDescriptors}
        /\ envFile \in {Absent, TextFile(VisualizerEnvText(DefaultPath))}
        /\ \E S \in SUBSET {DefaultPath, CustomPath} : dbs \in [S -> InitDbStates]
     \/ /\ desc \in {TextFile(t) : t \in SeqsUpTo(Alphabet, MaxLen) \cup EditedDescriptors}
        /\ envFile = Absent
        /\ \E S \in {{}, {DefaultPath, LocalPath}} :
             dbs \in [S -> {InitialisedDb(TodoRows, CurrentInfo)}]
  /\ dirs = DirsFor(dbs, envFile)
  /\ db_path = None
  /\ db_exists = FALSE
  /\ connOpen = FALSE
  /\ opens = 0
  /\ stats = None
  /\ report = None
  /\ visited = <<"Start">>
  /\ start = Snapshot
  /\ last = None

\* ------------------------------------------------------------------ a run of main()

\* An exception leaves main(): the run is over, at the stage it had reached.
Abort == pc' = "Aborted" /\ UNCHANGED visited

Enter(stage) == pc' = stage /\ visited' = Append(visited, stage)

\* An OS or storage-engine error the environment may raise.
MayFail == fails < MaxFails /\ fails' = fails + 1

\* ResolvePath that rewrites db_connection.txt as soon as it falls back to
\* the default path.
ResolvePathWritingDefault ==
  /\ pc = "Start"
  /\ LET parsed == ParseDbPathFromConnectionFile(desc) IN
     IF parsed = Raised
     THEN Abort /\ UNCHANGED <<db_path, desc>>
     ELSE /\ db_path' = IF parsed = None
                        THEN [none |-> FALSE, path |-> DefaultPath]
                        ELSE parsed
          /\ desc' = IF parsed = None
                     THEN TextFile(ConnectionFileText(DefaultPath))
                     ELSE desc
          /\ Enter("PathResolved")
  /\ UNCHANGED <<runs, fails, envFile, dirs, dbs, db_exists, connOpen,
                 opens, stats, report, start, last>>

\* db_path = _parse_db_path_from_connection_file(...), or the default.
ResolvePath ==
  /\ pc = "Start"
  /\ LET parsed == ParseDbPathFromConnectionFile(desc) IN
     IF parsed = Raised
     THEN Abort /\ UNCHANGED db_path
     ELSE /\ db_path' = IF parsed = None
                        THEN [none |-> FALSE, path |-> DefaultPath]
                        ELSE parsed
          /\ Enter("PathResolved")
  /\ UNCHANGED <<runs, fails, desc, envFile, dirs, dbs, db_exists, connOpen,
                 opens, stats, report, start, last>>

\* db_path.parent.mkdir(parents=True, exist_ok=True), db_path.exists(),
\* sqlite3.connect(str(db_path)).
OpenConnection ==
  /\ pc = "PathResolved"
  /\ LET made == dirs \cup Ancestors(Target) IN
     \/ \* mkdir or connect fails in the environment, before any effect
        /\ MayFail /\ Abort
        /\ UNCHANGED <<dirs, dbs, db_exists, connOpen, opens>>
     \/ \* a component of the parent is a file: mkdir raises
        /\ Ancestors(Target) \cap DOMAIN dbs # {}
        /\ Abort
        /\ UNCHANGED <<fails, dirs, dbs, db_exists, connOpen, opens>>
     \/ \* the path is a directory: connect raises OperationalError
        /\ Ancestors(Target) \cap DOMAIN dbs = {}
        /\ Target \in made
        /\ dirs' = made
        /\ db_exists' = TRUE
        /\ Abort
        /\ UNCHANGED <<fails, dbs, connOpen, opens>>
     \/ \* connect fails in the environment after mkdir
        /\ Ancestors(Target) \cap DOMAIN dbs = {}
        /\ Target \notin made
        /\ MayFail
        /\ dirs' = made
        /\ db_exists' = (Target \in DOMAIN dbs)
        /\ Abort
        /\ UNCHANGED <<dbs, connOpen, opens>>
     \/ \* the handle is opened; a missing file is created, empty
        /\ Ancestors(Target) \cap DOMAIN dbs = {}
        /\ Target \notin made
        /\ dirs' = made
        /\ db_exists' = (Target \in DOMAIN dbs)
        /\ dbs' = IF Target \in DOMAIN dbs THEN dbs
                  ELSE [p \in DOMAIN dbs \cup {Target} |->
                          IF p = Target THEN EmptyDb ELSE dbs[p]]
        /\ connOpen' = TRUE
        /\ opens' = opens + 1
        /\ Enter("ConnectionOpened")
        /\ UNCHANGED fails
  /\ UNCHANGED <<runs, desc, envFile, db_path, stats, report, start, last>>

\* The two pragmas and _ensure_schema(conn), inside try/finally.
Reconcile ==
  /\ pc = "ConnectionOpened"
  /\ \/ /\ dbs' = [dbs EXCEPT ![Target] = EnsureSchema(SetPragmas(@), runs)]
        /\ Enter("SchemaEnsured")
        /\ UNCHANGED <<fails, connOpen>>
     \/ \* a pragma fails: finally closes the handle
        /\ MayFail
        /\ connOpen' = CloseConnection(connOpen)
        /\ Abort
        /\ UNCHANGED dbs
     \/ \* statement k + 1 of _ensure_schema fails: finally closes the handle
        /\ MayFail
        /\ \E k \in 0..3 :
             dbs' = [dbs EXCEPT ![Target] = SchemaStatements(SetPragmas(@), k)]
        /\ connOpen' = CloseConnection(connOpen)
        /\ Abort
  /\ UNCHANGED <<runs, desc, envFile, dirs, db_path, db_exists, opens, stats,
                 report, start, last>>

\* The three SELECT COUNT(*) and, in the finally clause, conn.close().
CollectStatistics ==
  /\ pc = "SchemaEnsured"
  /\ connOpen' = CloseConnection(connOpen)
  /\ \/ /\ stats' = Statistics(dbs[Target])
        /\ Enter("ConnectionClosed")
        /\ UNCHANGED fails
     \/ MayFail /\ Abort /\ UNCHANGED stats
  /\ UNCHANGED <<runs, desc, envFile, dirs, dbs, db_path, db_exists, opens,
                 report, start, last>>

\* _write_connection_file(DB_CONNECTION_FILE, db_path.resolve())
WriteConnectionFile ==
  /\ pc = "ConnectionClosed"
  /\ \/ /\ desc' = TextFile(ConnectionFileText(Target))
        /\ pc' = "ConnectionFileWritten"
        /\ UNCHANGED fails
     \/ /\ MayFail
        /\ desc' \in FailedWrites(desc)
        /\ pc' = "Aborted"
  /\ UNCHANGED <<runs, envFile, dirs, dbs, db_path, db_exists, connOpen, opens,
                 stats, report, visited, start, last>>

\* _ensure_visualizer_env(db_path.resolve())
EnsureVisualizerEnv ==
  /\ pc = "ConnectionFileWritten"
  /\ \/ /\ dirs' = dirs \cup {VisualizerDir}
        /\ envFile' = TextFile(VisualizerEnvText(Target))
        /\ Enter("ConfigWritten")
        /\ UNCHANGED fails
     \/ \* os.makedirs fails
        /\ MayFail /\ Abort
        /\ UNCHANGED <<dirs, envFile>>
     \/ \* open or write fails
        /\ MayFail /\ Abort
        /\ dirs' = dirs \cup {VisualizerDir}
        /\ envFile' \in FailedWrites(envFile)
  /\ UNCHANGED <<runs, desc, dbs, db_path, db_exists, connOpen, opens, stats,
                 report, start, last>>

\* The summary main() prints (a print that fails, as on a closed pipe, raises;
\* a failure of the prints before the database is opened leaves everything
\* as it was, like the first branch of OpenConnection).
Report ==
  /\ pc = "ConfigWritten"
  /\ \/ /\ report' =
             [database |-> Name(db_path.path), location |-> Target,
              tables |-> stats.table_count, app_info |-> stats.app_info_count,
              todos |-> stats.todos_count]
        /\ Enter("ReportEmitted")
        /\ UNCHANGED fails
     \/ MayFail /\ Abort /\ UNCHANGED report
  /\ UNCHANGED <<runs, desc, envFile, dirs, dbs, db_path, db_exists,
                 connOpen, opens, stats, start, last>>

\* main() returns.
Finish ==
  /\ pc = "ReportEmitted"
  /\ Enter("Done")
  /\ UNCHANGED <<runs, fails, desc, envFile, dirs, dbs, db_path, db_exists,
                 connOpen, opens, stats, report, start, last>>

TodosAt(d, p) == IF p \in DOMAIN d THEN d[p].todos ELSE {}

\* The values of the two metadata keys.
MetaValues(db) ==
  {<<r.key, r.value>> : r \in {x \in db.app_info : x.key \in {"project_name", "version"}}}

SchemaOf(db) == [tables |-> db.tables, index |-> db.index]

\* What a run leaves for the next one to compare with.
Summary ==
  IF db_path = None THEN [none |-> FALSE, ok |-> FALSE, resolved |-> FALSE]
  ELSE [none |-> FALSE, ok |-> pc = "Done", resolved |-> TRUE, path |-> Target,
        todosBefore |-> TodosAt(start.dbs, Target),
        todosAfter |-> TodosAt(dbs, Target),
        schema |-> IF Target \in DOMAIN dbs THEN SchemaOf(dbs[Target]) ELSE None,
        meta |-> IF Target \in DOMAIN dbs THEN MetaValues(dbs[Target]) ELSE {}]

\* The script is run again in the same working directory.
Rerun ==
  /\ pc \in {"Done", "Aborted"}
  /\ runs < MaxRuns
  /\ runs' = runs + 1
  /\ last' = Summary
  /\ pc' = "Start"
  /\ visited' = <<"Start">>
  /\ db_path' = None
  /\ db_exists' = FALSE
  /\ opens' = 0
  /\ stats' = None
  /\ report' = None
  /\ start' = Snapshot
  /\ UNCHANGED <<fails, desc, envFile, dirs, dbs, connOpen>>

Next ==
  \/ ResolvePath
  \/ OpenConnection
  \/ Reconcile
  \/ CollectStatistics
  \/ WriteConnectionFile
  \/ EnsureVisualizerEnv
  \/ Report
  \/ Finish
  \/ Rerun

Spec == Init /\ [][Next]_vars

\* ------------------------------------------------------------------ properties

MetaKeys == {"project_name", "version"}

Reconciled ==
  pc \in {"SchemaEnsured", "ConnectionClosed", "ConnectionFileWritten",
          "ConfigWritten", "ReportEmitted", "Done"}

\* The lines of a text, each by the position of its first token.
LineStarts(text) == {i \in 1..Len(text) : AtLineStart(text, i)}

\* The last position of the line that starts at i (i - 1 for an empty line).
LineEnd(text, i) ==
  Max({e \in (i - 1)..Len(text) : \A j \in i..e : text[j] # NL})

\* Where the marker stands in the line that starts at i, when the line is a
\* "# File path:" line: a "#", blanks, the marker; 0 otherwise.
MarkerIn(text, i) ==
  LET e == LineEnd(text, i)
      ks == {k \in (i + 1)..e :
               text[k] = MARKER /\ \A j \in (i + 1)..(k - 1) : text[j] = SP}
  IN IF i <= e /\ text[i] = HASH /\ ks # {} THEN Min(ks) ELSE 0

MarkerLines(text) == {i \in LineStarts(text) : MarkerIn(text, i) # 0}

\* What a "# File path:" line holds after the colon, trimmed.
PathText(text, i) == Strip(SubSeq(text, MarkerIn(text, i) + 1, LineEnd(text, i)))

PathLines(text) == {i \in MarkerLines(text) : PathText(text, i) # <<>>}

StartedWithText == start.desc.kind = "text"

\* C1: two runs in succession that both succeed leave the same database with
\* the full schema, the same schema and the same values of project_name and
\* version after the second run as after the first, and the number of todos
\* rows is the same before the first, after the first and after the second.
C1_Idempotence ==
  (pc = "Done" /\ last # None /\ last.ok) =>
    /\ Target = last.path
    /\ SchemaOf(dbs[Target]) = last.schema
    /\ SchemaOf(dbs[Target]) = [tables |-> Tables, index |-> TRUE]
    /\ MetaValues(dbs[Target]) = last.meta
    /\ Cardinality(dbs[Target].todos) = Cardinality(last.todosAfter)
    /\ Cardinality(last.todosAfter) = Cardinality(last.todosBefore)

\* Two successful runs in a row on a database that holds todos rows.
C1_Witness ==
  pc = "Done" /\ last # None /\ last.ok /\ last.todosBefore # {} /\ fails = 0

\* C2: every todos row a run finds is there unchanged at every point of the
\* run, no run adds a row or loses the table, and the count the run reports
\* is the number of rows of the table, the rows it found included.
C2_NonDestructive ==
  /\ \A p \in DOMAIN start.dbs :
       /\ p \in DOMAIN dbs
       /\ dbs[p].todos = start.dbs[p].todos
       /\ "todos" \in start.dbs[p].tables => "todos" \in dbs[p].tables
  /\ \A p \in DOMAIN dbs \ DOMAIN start.dbs : dbs[p].todos = {}
  /\ report # None =>
       /\ report.todos = Cardinality(dbs[Target].todos)
       /\ report.todos = Cardinality(TodosAt(start.dbs, Target))

\* A run has reported the two rows it found.
C2_Witness ==
  report # None /\ TodosAt(start.dbs, Target) = TodoRows /\ report.todos = 2

\* C3: once a run has reconciled the database, and after the run, app_info
\* holds exactly one row of key project_name and exactly one of key version,
\* and the rows of every other key are those the run found.
C3_MetadataUpsert ==
  /\ Reconciled =>
       /\ \A k \in MetaKeys :
            Cardinality({r \in dbs[Target].app_info : r.key = k}) = 1
       /\ {r \in dbs[Target].app_info : r.key \notin MetaKeys}
            = IF Target \in DOMAIN start.dbs
              THEN {r \in start.dbs[Target].app_info : r.key \notin MetaKeys}
              ELSE {}
  /\ (last # None /\ last.ok) =>
       \A k \in MetaKeys :
         Cardinality({r \in dbs[last.path].app_info : r.key = k}) = 1

\* A second run has reconciled a database that held an older project name
\* and a row of another key.
C3_Witness ==
  /\ pc = "Done" /\ last # None /\ last.ok
  /\ Target \in DOMAIN start.dbs
  /\ \E r \in dbs[Target].app_info : r.key = "theme"

\* C4: when db_connection.txt holds a "# File path: <p>" line with a
\* non-empty <p>, the database main() opens is the one at <p> (the first
\* such line).
C4_PathAuthority ==
  (pc = "ConnectionOpened" /\ StartedWithText /\ PathLines(start.desc.text) # {}) =>
    Target = Resolve(Path(PathText(start.desc.text, Min(PathLines(start.desc.text)))))

\* C5: when db_connection.txt holds text without any "# File path:" line, the
\* run opens <cwd>/myapp.db and, when it is done, db_connection.txt is the
\* text written for that path, from which the resolver reads that path.
C5_MalformedFallback ==
  (StartedWithText /\ MarkerLines(start.desc.text) = {}) =>
    /\ pc = "ConnectionOpened" => Target = DefaultPath
    /\ pc = "Done" =>
         /\ desc = TextFile(ConnectionFileText(DefaultPath))
         /\ ParsePathFromText(desc.text) = [none |-> FALSE, path |-> DefaultPath]

\* C6: no run ends in the resolver: whatever db_connection.txt is, the
\* resolver returns a path or "no path found" and main() goes on.
C6_ResolverNeverRaises == ~(pc = "Aborted" /\ visited = <<"Start">>)

\* C7 (as amended): a run goes through the stages in order, none skipped;
\* a run that has not yet reached ConnectionClosed, aborted or not, has left
\* db_connection.txt and sqlite.env as it found them.
C7_OrderedStages ==
  /\ visited = SubSeq(Stages, 1, Len(visited))
  /\ pc \notin {"Aborted", "ConnectionFileWritten"} => pc = visited[Len(visited)]
  /\ pc = "ConnectionFileWritten" => visited[Len(visited)] = "ConnectionClosed"
  /\ pc = "Aborted" => Len(visited) <= 6
  /\ Len(visited) < 5 => desc = start.desc /\ envFile = start.envFile

\* A run aborted in writing the descriptors, db_connection.txt already changed.
C7_Witness ==
  pc = "Aborted" /\ visited[Len(visited)] = "ConnectionClosed" /\ desc # start.desc

\* C7 (as claimed): a run goes through the stages in order, and a run that
\* aborts has not created, truncated or modified either descriptor file.
C7_AbortLeavesDescriptors ==
  /\ visited = SubSeq(Stages, 1, Len(visited))
  /\ pc = "Aborted" =>
       /\ Len(visited) < 6
       /\ desc = start.desc
       /\ envFile = start.envFile

\* C8: the handle is opened at most once in a run, it is closed wherever the
\* run is outside the try block (before the open, after the close, after an
\* abort), and so whenever a descriptor file is written or has been.
C8_ScopedHandle ==
  /\ opens <= 1
  /\ pc \notin {"ConnectionOpened", "SchemaEnsured"} => ~connOpen
  /\ connOpen => desc = start.desc /\ envFile = start.envFile

\* A run aborted by an error under the open handle.
C8_Witness ==
  pc = "Aborted" /\ opens = 1 /\ visited[Len(visited)] = "ConnectionOpened"

\* C9: a run that succeeds after an aborted run works on the database path
\* the aborted run had resolved.
C9_SafeRerun ==
  (pc = "Done" /\ last # None /\ ~last.ok /\ last.resolved) => Target = last.path

\* C10: when every "# File path:" line of the descriptor is blank after the
\* colon, the resolver finds no path and the run uses the default path.
C10_SameLineOnly ==
  (/\ pc = "PathResolved" /\ StartedWithText
   /\ MarkerLines(start.desc.text) # {} /\ PathLines(start.desc.text) = {}) =>
    /\ ParsePathFromText(start.desc.text) = None
    /\ db_path.path = DefaultPath
====
